---------------------------- MODULE Spec2Model ----------------------------
(***************************************************************************)
(* Model of the chat-migrator repository.                                  *)
(*                                                                         *)
(*   prog = "importer" : src/teams_importer.py, main() and the functions   *)
(*                       it reaches (get_token, backoff_try,               *)
(*                       start_channel_migration, get_channel_files_folder)*)
(*   prog = "single"   : src/single_script.py, main() (export partition,   *)
(*                       export creation, polling, download, transform,    *)
(*                       migration start, replay, migration complete)      *)
(*                                                                         *)
(*   UploadSpec        : the upload loops of both scripts with             *)
(*                       upload_small_file, upload_large_file, upload_file *)
(*   TakeoutSpec       : src/gchat_takeout_to_teams.py, main() and         *)
(*                       transform_conversation()                          *)
(*                                                                         *)
(* Under Spec,                                                             *)
(* one behaviour is a sequence of runs of one of the two programs against  *)
(* one target channel: a run can be interrupted (the process is killed) or *)
(* can fail (an exception leaves main), and the operator can run the       *)
(* program again.                                                          *)
(***************************************************************************)
EXTENDS Integers, Sequences, FiniteSets, TLC

(***************************************************************************)
(* Bounds of the model.                                                    *)
(***************************************************************************)
MaxSpan == 2        \* START_DATE, END_DATE range over FirstDate + 0..MaxSpan days
MaxSliceDays == 2   \* SLICE_DAYS ranges over -1..MaxSliceDays
MaxSlices == 3      \* cap on len(slices) (the partition loop need not end)
MaxMsgs == 3        \* cap on len(all_payloads)

(***************************************************************************)
(* Program constants.                                                      *)
(***************************************************************************)
MaxAttempts == 8    \* for i in range(8)
InitialDelay == 1   \* delay = 1.0
DelayCap == 60      \* min(delay*2, 60)

FirstDate == <<2024, 1, 1>>
\* The createTime values (hour of day) of the messages of an exported file are a
\* prefix of one of these samples, in file order: one is not in time order.
SampleChats == {<<10, 9, 11>>, <<9, 10, 11>>}

\* HTTP status codes the external services answer with.
Statuses == {200, 201, 202, 204, 400, 404, 429, 500, 501, 502, 503, 504}
None == [none |-> TRUE]

Min(a, b) == IF a <= b THEN a ELSE b

(***************************************************************************)
(* requests.Response.raise_for_status(): raises HTTPError for 4xx and 5xx. *)
(***************************************************************************)
raise_for_status(s) == s >= 400 /\ s < 600

\* The service acknowledged the request (any 2xx answer).
Acknowledged(s) == s >= 200 /\ s < 300

\* r.json() of an answer: the documented JSON document comes with 200/201; a
\* 202 answer may or may not carry one; 204 (No Content) carries none.
JsonBodies(s) ==
    IF s \in {200, 201} THEN {TRUE}
    ELSE IF s = 202 THEN BOOLEAN
    ELSE {FALSE}

(***************************************************************************)
(* datetime.fromisoformat(date string) and datetime.isoformat(): a date is *)
(* <<year, month, day>>, a datetime at midnight UTC is its day number      *)
(* (proleptic Gregorian calendar, day 0 = 1970-01-01).                     *)
(***************************************************************************)
fromisoformat(date) ==
    LET y   == IF date[2] <= 2 THEN date[1] - 1 ELSE date[1]
        era == y \div 400
        yoe == y - era * 400
        mp  == IF date[2] > 2 THEN date[2] - 3 ELSE date[2] + 9
        doy == (153 * mp + 2) \div 5 + date[3] - 1
        doe == yoe * 365 + yoe \div 4 - yoe \div 100 + doy
    IN  era * 146097 + doe - 719468

isoformat(t) ==
    LET z   == t + 719468
        era == z \div 146097
        doe == z - era * 146097
        yoe == (doe - doe \div 1460 + doe \div 36524 - doe \div 146096) \div 365
        doy == doe - (365 * yoe + yoe \div 4 - yoe \div 100)
        mp  == (5 * doy + 2) \div 153
        d   == doy - (153 * mp + 2) \div 5 + 1
        m   == IF mp < 10 THEN mp + 3 ELSE mp - 9
        y   == yoe + era * 400 + (IF m <= 2 THEN 1 ELSE 0)
    IN  <<y, m, d>>

\* The configurations of START_DATE, END_DATE and SLICE_DAYS that are explored.
DateInputs == {isoformat(fromisoformat(FirstDate) + k) : k \in 0..MaxSpan}
ExampleConfig == <<<<2024, 1, 1>>, <<2024, 3, 1>>, 30>>
\* int(os.getenv("SLICE_DAYS", "30")) is whatever integer the environment gives.
SliceDayInputs == {-1, 0} \cup (1..MaxSliceDays)
Configs ==
    (DateInputs \X DateInputs \X SliceDayInputs) \cup {ExampleConfig}

\* All sequences over S of length at most n.
RECURSIVE SeqsUpTo(_, _)
SeqsUpTo(S, n) ==
    IF n <= 0 THEN {<<>>}
    ELSE LET shorter == SeqsUpTo(S, n - 1)
         IN  shorter \cup {Append(q, x) : q \in shorter, x \in S}

VARIABLES
    prog,           \* which script is run
    earlier,        \* the payload positions posted by earlier runs
    pc,             \* position of the current run in main()
    allOk,          \* every external call of this run was answered with success so far
    \* backoff_try (importer)
    attempt,        \* calls of fn made so far by the backoff_try call in progress
    delay,          \* its local delay
    sleeps,         \* the delays it has slept, in order
    only429,        \* every answer it has retried was a 429
    lastStatus,     \* the status of its last answer (0: none yet)
    ret,            \* the last completed backoff_try call and what its caller did
    \* migration mode of the target channel as driven by this run
    mode, startCalls, completeCalls, postsAtComplete,
    \* export (single)
    START_DATE, END_DATE, SLICE_DAYS,
    archive,        \* the files of the exports of slices 1, 2, ... known so far
    t, slices, export_ids, jobs, cur, downloads, downloaded,
    \* transform and replay (single)
    zi, all_payloads, files_to_upload, count, postCalls, postLog,
    \* upload of the deferred files (the upload loops and functions of both scripts)
    upc,            \* position in the upload loop
    nrows,          \* number of rows of the files manifest / of files_to_upload
    row,            \* the row being uploaded
    size,           \* os.path.getsize of its file
    sent,           \* bytes sent so far in its upload session (sent / start)
    sentReqs,       \* the requests made for it, each with its final status
    web_urls_by_path,   \* the mapping source path -> remote URL (path_to_url)
    manifest,       \* the rows read so far
    posted,         \* the messages posted after the upload, with their links
    \* gchat_takeout_to_teams.py
    convs,          \* the conversations found under takeout_root, sorted
    tpc,            \* position in main() / transform_conversation()
    ci,             \* the conversation being transformed
    mi,             \* enumerate(msgs): the index of the next message
    queues,         \* the queue files <channel_key>.jsonl of out_dir
    manifests,      \* the files <channel_key>_files_manifest.csv of out_dir
    runs,           \* complete runs of the transform so far
    firstOut        \* the output files as the first run left them

envVars    == <<prog, START_DATE, END_DATE, SLICE_DAYS>>
backoffVars == <<attempt, delay, sleeps, only429, lastStatus, ret>>
modeVars   == <<mode, startCalls, completeCalls, postsAtComplete>>
exportVars == <<t, slices, export_ids, jobs, cur, downloads, downloaded>>
replayVars == <<zi, all_payloads, files_to_upload, count, postCalls>>
uploadVars == <<upc, nrows, row, size, sent, sentReqs, web_urls_by_path, manifest,
               posted>>
takeoutVars == <<convs, tpc, ci, mi, queues, manifests, runs, firstOut>>
otherVars  == <<uploadVars, takeoutVars>>
mainVars   == <<START_DATE, END_DATE, SLICE_DAYS, archive, earlier, pc, allOk, modeVars,
               exportVars, replayVars, postLog>>
vars == <<envVars, archive, earlier, pc, allOk, backoffVars, modeVars, exportVars,
          replayVars, postLog, otherVars>>

\* The state of a process that has just been started.
FreshRun ==
    /\ pc = "auth"
    /\ allOk = TRUE
    /\ attempt = 0 /\ delay = InitialDelay /\ sleeps = <<>>
    /\ only429 = TRUE /\ lastStatus = 0 /\ ret = None
    /\ mode = "NOT_STARTED" /\ startCalls = 0 /\ completeCalls = 0
    /\ postsAtComplete = 0
    /\ t = 0 /\ slices = <<>> /\ export_ids = <<>> /\ jobs = <<>> /\ cur = 1
    /\ downloads = <<>> /\ downloaded = {}
    /\ zi = 1 /\ all_payloads = <<>> /\ files_to_upload = <<>>
    /\ count = 0 /\ postCalls = 0

\* No upload is in progress.
NoUpload ==
    /\ upc = "none" /\ nrows = 0 /\ row = 1 /\ size = 0 /\ sent = 0
    /\ sentReqs = <<>> /\ web_urls_by_path = <<>>
    /\ manifest = <<>> /\ posted = <<>>

\* The takeout transformer is not run.
NoTakeout ==
    /\ convs = <<>> /\ tpc = "none" /\ ci = 1 /\ mi = 0
    /\ queues = <<>> /\ manifests = <<>> /\ runs = 0 /\ firstOut = <<>>

Init ==
    /\ prog \in {"importer", "single"}
    /\ NoUpload /\ NoTakeout
    /\ \E c \in Configs :
          /\ START_DATE = c[1] /\ END_DATE = c[2] /\ SLICE_DAYS = c[3]
          /\ prog = "importer" => c = ExampleConfig
    /\ archive = <<>>
    /\ earlier = {}
    /\ postLog = <<>>
    /\ FreshRun


(***************************************************************************)
(* Process control: a run can be killed at any point, and a run that was   *)
(* killed or that failed can be followed by a new run of the same program. *)
(* No state of the process survives: neither script writes or reads a      *)
(* checkpoint.                                                             *)
(***************************************************************************)
Running == pc \notin {"done", "failed", "interrupted"}

Range(q) == {q[i] : i \in DOMAIN q}

\* The process is gone, and its variables with it; what it has posted stays
\* posted.
ProcessGone ==
    /\ earlier' = earlier \cup Range(postLog)
    /\ postLog' = <<>>
    /\ allOk' = TRUE
    /\ attempt' = 0 /\ delay' = InitialDelay /\ sleeps' = <<>>
    /\ only429' = TRUE /\ lastStatus' = 0 /\ ret' = None
    /\ mode' = "NOT_STARTED" /\ startCalls' = 0 /\ completeCalls' = 0
    /\ postsAtComplete' = 0
    /\ t' = 0 /\ slices' = <<>> /\ export_ids' = <<>> /\ jobs' = <<>> /\ cur' = 1
    /\ downloads' = <<>> /\ downloaded' = {}
    /\ zi' = 1 /\ all_payloads' = <<>> /\ files_to_upload' = <<>>
    /\ count' = 0 /\ postCalls' = 0
    /\ UNCHANGED <<otherVars, envVars, archive>>

Interrupt ==
    /\ Running
    /\ pc' = "interrupted"
    /\ ProcessGone

Restart ==
    /\ pc \in {"failed", "interrupted"}
    /\ pc' = "auth"
    /\ ProcessGone

(***************************************************************************)
(* teams_importer.py                                                       *)
(***************************************************************************)

\* get_token: raises RuntimeError when the answer holds no access token.
get_token(ok) ==
    /\ prog = "importer" /\ pc = "auth"
    /\ pc' = IF ok THEN "start" ELSE "failed"
    /\ allOk' = (allOk /\ ok)
    /\ UNCHANGED <<otherVars, envVars, archive, earlier, backoffVars, modeVars, exportVars, replayVars,
                   postLog>>

\* Variant of RetryStatus: only throttling is retried.
RetryStatus_only429(s) == s = 429

\* backoff_try, line 28: the statuses that are retried.
RetryStatus(s) == s \in {429, 500, 502, 503, 504}

\* Variant of NextDelay: the delay doubles without the cap.
NextDelay_uncapped(d) == d * 2

\* backoff_try, line 29: delay = min(delay*2, 60).
NextDelay(d) == Min(d * 2, DelayCap)

\* backoff_try returns on an answer that is not retried, and after the last
\* iteration of range(8).
BackoffReturns(s) == ~RetryStatus(s) \/ attempt + 1 >= MaxAttempts

\* The delays slept once the answer s has been handled (time.sleep(delay) comes
\* before the loop test, so the last retried answer is slept on as well).
SleepsAfter(s) == IF RetryStatus(s) THEN Append(sleeps, delay) ELSE sleeps

\* One iteration of the loop of backoff_try that does not return.
BackoffRetry(s) ==
    /\ ~BackoffReturns(s)
    /\ attempt' = attempt + 1
    /\ sleeps' = SleepsAfter(s)
    /\ delay' = NextDelay(delay)
    /\ only429' = (only429 /\ s = 429)
    /\ lastStatus' = s
    /\ UNCHANGED ret

\* The iteration of backoff_try that returns r to the caller fn, which raises or
\* not; the locals of backoff_try are gone afterwards.
BackoffReturn(fn, s, raised) ==
    /\ BackoffReturns(s)
    /\ ret' = [fn |-> fn, status |-> s, calls |-> attempt + 1,
               sleeps |-> SleepsAfter(s), only429 |-> only429, raised |-> raised]
    /\ attempt' = 0 /\ delay' = InitialDelay /\ sleeps' = <<>>
    /\ only429' = TRUE /\ lastStatus' = 0

\* start_channel_migration, line 82.
StartRaises(s) == s \notin {204, 202} /\ raise_for_status(s)

start_channel_migration(s) ==
    /\ prog = "importer" /\ pc = "start"
    /\ allOk' = (allOk /\ s \in {204, 202})
    /\ startCalls' = IF attempt = 0 THEN startCalls + 1 ELSE startCalls
    /\ \/ /\ BackoffRetry(s)
          /\ UNCHANGED <<pc, mode>>
       \/ /\ BackoffReturn("start_channel_migration", s, StartRaises(s))
          /\ mode' = IF Acknowledged(s) THEN "MIGRATING" ELSE mode
          /\ pc' = IF StartRaises(s) THEN "failed" ELSE "folder"
    /\ UNCHANGED <<otherVars, envVars, archive, earlier, completeCalls, postsAtComplete, exportVars,
                   replayVars, postLog>>

\* get_channel_files_folder, lines 38-41: raise_for_status, then the JSON
\* document is read.
FolderRaises(s, body) == raise_for_status(s) \/ ~body

get_channel_files_folder(s, body) ==
    /\ prog = "importer" /\ pc = "folder"
    /\ body \in JsonBodies(s)
    /\ allOk' = (allOk /\ s = 200)
    /\ \/ /\ BackoffRetry(s)
          /\ UNCHANGED pc
       \/ /\ BackoffReturn("get_channel_files_folder", s, FolderRaises(s, body))
          /\ pc' = IF FolderRaises(s, body) THEN "failed" ELSE "manifest"
    /\ UNCHANGED <<otherVars, envVars, archive, earlier, modeVars, exportVars, replayVars, postLog>>

\* main, line 127: os.path.join(...) is evaluated, but "import csv, os" on line
\* 130 makes os a local name of main, which is not yet bound: the statement
\* raises UnboundLocalError in every run, and lines 128-166 (upload, replay,
\* complete_channel_migration) are never executed.
importer_manifest_path ==
    /\ prog = "importer" /\ pc = "manifest"
    /\ pc' = "failed"
    /\ UNCHANGED <<otherVars, envVars, archive, earlier, allOk, backoffVars, modeVars, exportVars,
                   replayVars, postLog>>

ImporterStep ==
    \/ \E ok \in BOOLEAN : get_token(ok)
    \/ \E s \in Statuses : start_channel_migration(s)
    \/ \E s \in Statuses, body \in BOOLEAN : get_channel_files_folder(s, body)
    \/ importer_manifest_path

(***************************************************************************)
(* single_script.py                                                        *)
(***************************************************************************)

\* main, lines 230-231: google_session() and graph_token(), which raises
\* RuntimeError when the answer holds no access token.
graph_token(ok) ==
    /\ prog = "single" /\ pc = "auth"
    /\ pc' = IF ok THEN "matter" ELSE "failed"
    /\ allOk' = (allOk /\ ok)
    /\ UNCHANGED <<otherVars, envVars, archive, earlier, backoffVars, modeVars, exportVars, replayVars,
                   postLog>>

\* vault_create_matter, then main lines 238-241: the cursor t starts at start.
vault_create_matter(s, body) ==
    /\ prog = "single" /\ pc = "matter"
    /\ body \in JsonBodies(s)
    /\ allOk' = (allOk /\ s = 200)
    /\ IF raise_for_status(s) \/ ~body
       THEN pc' = "failed" /\ UNCHANGED <<t, slices>>
       ELSE pc' = "partition" /\ t' = fromisoformat(START_DATE) /\ slices' = <<>>
    /\ UNCHANGED <<otherVars, envVars, archive, earlier, backoffVars, modeVars, export_ids, jobs, cur,
                   downloads, downloaded, replayVars, postLog>>

\* Variant of SliceEnd: the slice end is not cut at end.
SliceEnd_uncapped(tt, days, end) == tt + days

\* main, line 243: t2 = min(t + timedelta(days=SLICE_DAYS), end).
SliceEnd(tt, days, end) == Min(tt + days, end)

\* main, lines 242-245: one iteration of the partition loop.
partition_step ==
    /\ prog = "single" /\ pc = "partition"
    /\ t < fromisoformat(END_DATE)
    /\ Len(slices) < MaxSlices
    /\ LET t2 == SliceEnd(t, SLICE_DAYS, fromisoformat(END_DATE))
       IN  /\ slices' = Append(slices, <<isoformat(t), isoformat(t2)>>)
           /\ t' = t2
    /\ UNCHANGED <<otherVars, envVars, archive, earlier, pc, allOk, backoffVars, modeVars, export_ids,
                   jobs, cur, downloads, downloaded, replayVars, postLog>>

\* main, line 242: the loop ends when t < end is false.
partition_done ==
    /\ prog = "single" /\ pc = "partition"
    /\ ~(t < fromisoformat(END_DATE))
    /\ pc' = "create"
    /\ UNCHANGED <<otherVars, envVars, archive, earlier, allOk, backoffVars, modeVars, exportVars,
                   replayVars, postLog>>

\* main, lines 248-251, with vault_create_chat_export: one export per slice, in
\* the order of slices; the export's id is its position.
vault_create_chat_export(s, body) ==
    /\ prog = "single" /\ pc = "create"
    /\ Len(export_ids) < Len(slices)
    /\ body \in JsonBodies(s)
    /\ allOk' = (allOk /\ s = 200)
    /\ IF raise_for_status(s) \/ ~body
       THEN pc' = "failed" /\ UNCHANGED <<export_ids, jobs>>
       ELSE /\ export_ids' = Append(export_ids, Len(export_ids) + 1)
            /\ jobs' = Append(jobs, "IN_PROGRESS")
            /\ UNCHANGED pc
    /\ UNCHANGED <<otherVars, envVars, archive, earlier, backoffVars, modeVars, t, slices, cur,
                   downloads, downloaded, replayVars, postLog>>

create_done ==
    /\ prog = "single" /\ pc = "create"
    /\ Len(export_ids) = Len(slices)
    /\ pc' = "poll"
    /\ cur' = 1
    /\ UNCHANGED <<otherVars, envVars, archive, earlier, allOk, backoffVars, modeVars, t, slices,
                   export_ids, jobs, downloads, downloaded, replayVars, postLog>>

\* The export service: a job in progress completes or fails; both are final.
JobAdvance(i, st) ==
    /\ prog = "single"
    /\ i \in 1..Len(jobs)
    /\ jobs[i] = "IN_PROGRESS"
    /\ st \in {"COMPLETED", "FAILED"}
    /\ jobs' = [jobs EXCEPT ![i] = st]
    /\ UNCHANGED <<otherVars, envVars, archive, earlier, pc, allOk, backoffVars, modeVars, t, slices,
                   export_ids, cur, downloads, downloaded, replayVars, postLog>>

\* main, lines 256-258, with vault_get_export: one poll of export_ids[cur].
vault_get_export(s, body) ==
    /\ prog = "single" /\ pc = "poll"
    /\ cur <= Len(export_ids)
    /\ body \in JsonBodies(s)
    /\ allOk' = (allOk /\ s = 200)
    /\ pc' = IF raise_for_status(s) \/ ~body THEN "failed"
             ELSE IF jobs[cur] = "COMPLETED" THEN "download"
             ELSE "sleep"
    /\ UNCHANGED <<otherVars, envVars, archive, earlier, backoffVars, modeVars, exportVars, replayVars,
                   postLog>>

\* main, line 259: time.sleep(30), then the next poll of the same export.
poll_sleep ==
    /\ prog = "single" /\ pc = "sleep"
    /\ pc' = "poll"
    /\ UNCHANGED <<otherVars, envVars, archive, earlier, allOk, backoffVars, modeVars, exportVars,
                   replayVars, postLog>>

\* The number of files an export's cloudStorageSink lists.
ExportFileCounts == {0, 1}

\* The number of messages in the files known so far.
RECURSIVE SumLen(_)
SumLen(qs) == IF qs = <<>> THEN 0 ELSE Len(Head(qs)) + SumLen(Tail(qs))

RECURSIVE SumFiles(_)
SumFiles(fss) == IF fss = <<>> THEN 0 ELSE SumLen(Head(fss)) + SumFiles(Tail(fss))

ArchivedMsgs == SumFiles(archive)

\* The messages a file can hold when at most n more messages are explored.
FileContents(n) == {SubSeq(c, 1, k) : c \in SampleChats, k \in 0..Min(n, 3)}

\* The files of the export of slice i, each the sequence of the createTime of its
\* messages: the source data do not change, so an export of the same slice in
\* a later run holds the same files.
ExportFiles(i) ==
    IF i <= Len(archive) THEN {archive[i]}
    ELSE {fs \in SeqsUpTo(FileContents(MaxMsgs - ArchivedMsgs), 1) :
            Len(fs) \in ExportFileCounts}

\* main, lines 260-262, with vault_download_export: every file of the export is
\* fetched (raise_for_status on each); then the loop goes to the next export.
\* A local path is <<export id, file number>>.
vault_download_export(files, ok) ==
    /\ prog = "single" /\ pc = "download"
    /\ files \in ExportFiles(cur)
    /\ files = <<>> => ok
    /\ allOk' = (allOk /\ ok)
    /\ archive' = IF cur <= Len(archive) THEN archive ELSE Append(archive, files)
    /\ IF ok
       THEN /\ downloads' = downloads \o
                              [k \in 1..Len(files) |-> <<export_ids[cur], k>>]
            /\ downloaded' = downloaded \cup {export_ids[cur]}
            /\ cur' = cur + 1
            /\ pc' = "poll"
       ELSE pc' = "failed" /\ UNCHANGED <<downloads, downloaded, cur>>
    /\ UNCHANGED <<otherVars, envVars, earlier, backoffVars, modeVars, t, slices, export_ids,
                   jobs, replayVars, postLog>>

\* main, line 255: every export has been polled and downloaded.
poll_done ==
    /\ prog = "single" /\ pc = "poll"
    /\ cur > Len(export_ids)
    /\ pc' = "usermap"
    /\ UNCHANGED <<otherVars, envVars, archive, earlier, allOk, backoffVars, modeVars, exportVars,
                   replayVars, postLog>>

\* main, line 265: load_user_map_somehow() is called but defined nowhere ("left
\* to implementation"); it is taken to return the identity table.
load_user_map_somehow ==
    /\ prog = "single" /\ pc = "usermap"
    /\ pc' = "transform"
    /\ zi' = 1
    /\ UNCHANGED <<otherVars, envVars, archive, earlier, allOk, backoffVars, modeVars, exportVars,
                   all_payloads, files_to_upload, count, postCalls, postLog>>

\* build_teams_payloads: one payload per message, in the order of messages, with
\* createdDateTime the message's createTime; files_for_upload is returned as it
\* was created, empty (nothing is ever appended to it).
build_teams_payloads(messages) ==
    <<[i \in 1..Len(messages) |-> [createdDateTime |-> messages[i]]], <<>>>>

\* parse_vault_zip: the messages of the archive at local path z.
parse_vault_zip(z) == archive[z[1]][z[2]]

\* main, lines 268-272: one archive is parsed and its payloads are appended.
transform_zip ==
    /\ prog = "single" /\ pc = "transform"
    /\ zi <= Len(downloads)
    /\ LET built == build_teams_payloads(parse_vault_zip(downloads[zi]))
       IN  /\ all_payloads' = all_payloads \o built[1]
           /\ files_to_upload' = files_to_upload \o built[2]
    /\ zi' = zi + 1
    /\ UNCHANGED <<otherVars, envVars, archive, earlier, pc, allOk, backoffVars, modeVars,
                   exportVars, count, postCalls, postLog>>

transform_done ==
    /\ prog = "single" /\ pc = "transform"
    /\ zi > Len(downloads)
    /\ pc' = "start"
    /\ UNCHANGED <<otherVars, envVars, archive, earlier, allOk, backoffVars, modeVars, exportVars,
                   replayVars, postLog>>

\* Variant of SStartRaises: a refused startMigration is not raised.
SStartRaises_never(s) == FALSE

\* start_migration, line 211.
SStartRaises(s) == s \notin {204, 202} /\ raise_for_status(s)

\* main, line 275, with start_migration.
start_migration(s) ==
    /\ prog = "single" /\ pc = "start"
    /\ allOk' = (allOk /\ s \in {204, 202})
    /\ startCalls' = startCalls + 1
    /\ mode' = IF Acknowledged(s) THEN "MIGRATING" ELSE mode
    /\ pc' = IF SStartRaises(s) THEN "failed" ELSE "folder"
    /\ UNCHANGED <<otherVars, envVars, archive, earlier, backoffVars, completeCalls, postsAtComplete,
                   exportVars, replayVars, postLog>>

\* main, line 276, with get_channel_files_folder of single_script.py.
s_get_channel_files_folder(s, body) ==
    /\ prog = "single" /\ pc = "folder"
    /\ body \in JsonBodies(s)
    /\ allOk' = (allOk /\ s = 200)
    /\ pc' = IF raise_for_status(s) \/ ~body THEN "failed" ELSE "upload"
    /\ UNCHANGED <<otherVars, envVars, archive, earlier, backoffVars, modeVars, exportVars, replayVars,
                   postLog>>

\* main, lines 279-282: the loop over files_to_upload, which is empty in every
\* run (build_teams_payloads returns no file), so upload_file is never called.
upload_files ==
    /\ prog = "single" /\ pc = "upload"
    /\ files_to_upload = <<>>
    /\ pc' = "post"
    /\ count' = 0
    /\ UNCHANGED <<otherVars, envVars, archive, earlier, allOk, backoffVars, modeVars, exportVars,
                   zi, all_payloads, files_to_upload, postCalls, postLog>>

\* Variant of NextPayload: the payloads are taken in createdDateTime order.
NextPayload_by_time(n) ==
    LET before(i) == {j \in DOMAIN all_payloads :
                        \/ all_payloads[j].createdDateTime
                              < all_payloads[i].createdDateTime
                        \/ /\ all_payloads[j].createdDateTime
                                = all_payloads[i].createdDateTime
                           /\ j < i}
    IN  IF n < Len(all_payloads)
        THEN CHOOSE i \in DOMAIN all_payloads : Cardinality(before(i)) = n
        ELSE n + 1

\* main, line 286: "for p in all_payloads" takes the payloads in list order; n
\* payloads have been taken so far.
NextPayload(n) == n + 1

\* post_import_message of single_script.py, lines 216-217.
SPostRaises(s, body) == (s \notin {200, 201} /\ raise_for_status(s)) \/ ~body

\* main, lines 286-290: one iteration of the replay loop.
s_post_import_message(s, body) ==
    /\ prog = "single" /\ pc = "post"
    /\ count < Len(all_payloads)
    /\ body \in JsonBodies(s)
    /\ allOk' = (allOk /\ s \in {200, 201})
    /\ postCalls' = postCalls + 1
    /\ IF SPostRaises(s, body)
       THEN pc' = "failed" /\ UNCHANGED <<count, postLog>>
       ELSE /\ count' = count + 1
            /\ postLog' = Append(postLog, NextPayload(count))
            /\ UNCHANGED pc
    /\ UNCHANGED <<otherVars, envVars, archive, earlier, backoffVars, modeVars, exportVars, zi,
                   all_payloads, files_to_upload>>

\* main, line 286: the replay loop ends when the list is exhausted.
PostLoopDone == count >= Len(all_payloads)

post_done ==
    /\ prog = "single" /\ pc = "post"
    /\ PostLoopDone
    /\ pc' = "complete"
    /\ UNCHANGED <<otherVars, envVars, archive, earlier, allOk, backoffVars, modeVars, exportVars,
                   replayVars, postLog>>

\* complete_migration, line 222.
SCompleteRaises(s) == s # 204 /\ raise_for_status(s)

\* main, lines 293-294, with complete_migration.
complete_migration(s) ==
    /\ prog = "single" /\ pc = "complete"
    /\ allOk' = (allOk /\ s = 204)
    /\ completeCalls' = completeCalls + 1
    /\ postsAtComplete' = count
    /\ mode' = IF Acknowledged(s) THEN "COMPLETED" ELSE mode
    /\ pc' = IF SCompleteRaises(s) THEN "failed" ELSE "done"
    /\ UNCHANGED <<otherVars, envVars, archive, earlier, backoffVars, startCalls, exportVars,
                   replayVars, postLog>>

SingleStep ==
    \/ \E ok \in BOOLEAN : graph_token(ok)
    \/ \E s \in Statuses, body \in BOOLEAN : vault_create_matter(s, body)
    \/ partition_step
    \/ partition_done
    \/ \E s \in Statuses, body \in BOOLEAN : vault_create_chat_export(s, body)
    \/ create_done
    \/ \E s \in Statuses, body \in BOOLEAN : vault_get_export(s, body)
    \/ poll_sleep
    \/ \E ok \in BOOLEAN : \E files \in ExportFiles(cur) :
          vault_download_export(files, ok)
    \/ poll_done
    \/ load_user_map_somehow
    \/ transform_zip
    \/ transform_done
    \/ \E s \in Statuses : start_migration(s)
    \/ \E s \in Statuses, body \in BOOLEAN : s_get_channel_files_folder(s, body)
    \/ upload_files
    \/ \E s \in Statuses, body \in BOOLEAN : s_post_import_message(s, body)
    \/ post_done
    \/ \E s \in Statuses : complete_migration(s)

\* The steps of the running process.
ProgramStep == ImporterStep \/ SingleStep

\* The steps of the environment: the export service, the operator.
EnvStep ==
    \/ \E i \in 1..MaxSlices, st \in {"COMPLETED", "FAILED"} : JobAdvance(i, st)
    \/ Interrupt
    \/ Restart

Next == ProgramStep \/ EnvStep

Spec == Init /\ [][Next]_vars

\* A process that is not killed keeps executing: its next statement is
\* eventually executed. Nothing is assumed of the environment.
FairSpec == Spec /\ WF_vars(ProgramStep)

(***************************************************************************)
(* Upload of the deferred files.                                           *)
(*                                                                         *)
(* teams_importer.py: main lines 131-139 with upload_small_file and        *)
(* upload_large_file; single_script.py: main lines 279-282 with            *)
(* upload_file.  Neither main reaches these statements with a file to      *)
(* upload (teams_importer.py raises on line 127, files_to_upload of        *)
(* single_script.py is always empty), so they are modelled on their own:   *)
(* UploadSpec starts at the upload loop, migration started and the files   *)
(* folder resolved, with a manifest of nrows rows.                         *)
(***************************************************************************)
MiB == 1024 * 1024
SmallLimit == 4 * MiB       \* size <= 4*1024*1024
ChunkSize == 5 * MiB        \* chunk=5*1024*1024, f.read(5*1024*1024)

MaxFiles == 2       \* rows of the manifest
MaxChunks == 2      \* file sizes range up to MaxChunks chunks and one byte

\* The source paths the rows of the manifest name.
Paths == {"a.pdf", "b.pdf"}

\* The webUrl the storage answers with for a file saved under the name of path.
RemoteUrl(path) == <<"webUrl", path>>

\* The value of a key that is in the mapping with the value None, and the mark
\* of a key that is not in the mapping.
NoneUrl == <<"None">>
Absent == <<"absent">>

\* os.path.getsize of a manifest row: the sizes around the limits.
FileSizes ==
    {0, SmallLimit - 1, SmallLimit, SmallLimit + 1}
        \cup {k * ChunkSize + d : k \in 1..MaxChunks, d \in {-1, 0, 1}}

\* The statuses a storage request is answered with.
UploadStatuses == {200, 201, 202, 204, 404, 429}

\* One request of the upload of a file, with the last status it was answered
\* with (a request sent through backoff_try may have been sent several times).
Req(kind, first, last, total, status) ==
    [kind |-> kind, first |-> first, last |-> last, total |-> total,
     status |-> status]

\* backoff_try, lines 30-31: r is returned; the locals are gone.
BackoffLeave(s) ==
    /\ BackoffReturns(s)
    /\ attempt' = 0 /\ delay' = InitialDelay /\ sleeps' = <<>>
    /\ only429' = TRUE /\ lastStatus' = 0
    /\ UNCHANGED ret

\* Variant of FitsSinglePut: the limit is exclusive.
FitsSinglePut_exclusive(sz) == sz < SmallLimit

\* teams_importer.py main, line 135: if size <= 4*1024*1024.
FitsSinglePut(sz) == sz <= SmallLimit

\* single_script.py upload_file, line 184: if size <= 4*1024*1024.
SFitsSinglePut(sz) == sz <= SmallLimit

\* Variant of ToSend: every chunk is a full chunk.
ToSend_full(sz, done) == ChunkSize

\* upload_large_file, line 61: to_send = min(chunk, size - sent).
ToSend(sz, done) == Min(ChunkSize, sz - done)

\* upload_file, line 197: len(f.read(5*1024*1024)) with start bytes read.
SToSend(sz, done) == Min(ChunkSize, sz - done)

\* The upload function returns url: main records it and takes the next row.
FileUploaded(url) ==
    /\ web_urls_by_path' = [web_urls_by_path EXCEPT ![manifest[row].source_path] = url]
    /\ row' = row + 1
    /\ upc' = "row"
    /\ UNCHANGED sent

\* The upload function raises: nothing in main catches it.
UploadRaises ==
    /\ upc' = "aborted"
    /\ UNCHANGED <<row, web_urls_by_path, sent>>

\* The loop over the rows: the next row is read, and the size of its file
\* decides the upload function (importer lines 132-138; single lines 280-281,
\* 183-184, 189).  Row k of the manifest is a file of message k - 1: every
\* message but the last of the queue has one deferred file.
upload_row(sz, src) ==
    /\ upc = "row" /\ row <= nrows
    /\ sz \in FileSizes
    /\ manifest' = Append(manifest, [source_path |-> src, message_index |-> row - 1])
    /\ size' = sz /\ sent' = 0 /\ sentReqs' = <<>>
    /\ upc' = IF (IF prog = "importer" THEN FitsSinglePut(sz) ELSE SFitsSinglePut(sz))
              THEN "put" ELSE "session"
    /\ UNCHANGED <<prog, mainVars, backoffVars, takeoutVars, nrows, row,
                   web_urls_by_path, posted>>

\* The loop over the rows is over (importer line 140, single line 284); what
\* is kept of the last upload is not looked at again.
upload_rows_done ==
    /\ upc = "row" /\ row > nrows
    /\ upc' = "uploaded"
    /\ size' = 0 /\ sent' = 0 /\ sentReqs' = <<>>
    /\ UNCHANGED <<prog, mainVars, backoffVars, takeoutVars, nrows, row,
                   web_urls_by_path, manifest, posted>>

\* teams_importer.py upload_small_file: PUT .../content through backoff_try,
\* raise_for_status, r.json().
upload_small_file(s, body) ==
    /\ prog = "importer" /\ upc = "put"
    /\ body \in JsonBodies(s)
    /\ \/ /\ BackoffRetry(s)
          /\ UNCHANGED uploadVars
       \/ /\ BackoffLeave(s)
          /\ sentReqs' = Append(sentReqs, Req("content", 0, size - 1, size, s))
          /\ IF raise_for_status(s) \/ ~body
             THEN UploadRaises ELSE FileUploaded(RemoteUrl(manifest[row].source_path))
          /\ UNCHANGED <<nrows, size, manifest, posted>>
    /\ UNCHANGED <<prog, mainVars, takeoutVars>>

\* teams_importer.py upload_large_file, lines 54-58: createUploadSession is
\* posted directly (not through backoff_try), and s["uploadUrl"] is read.
upload_large_file_session(s, body) ==
    /\ prog = "importer" /\ upc = "session"
    /\ body \in JsonBodies(s)
    /\ sentReqs' = Append(sentReqs, Req("session", 0, 0, size, s))
    /\ IF ~body THEN UploadRaises
                ELSE upc' = "chunk" /\ UNCHANGED <<row, web_urls_by_path, sent>>
    /\ UNCHANGED <<prog, mainVars, backoffVars, takeoutVars, nrows, size, manifest,
                   posted>>

\* teams_importer.py upload_large_file, lines 60-73: one chunk is put through
\* backoff_try; 200 or 201 returns r.json(); any status but 202 goes through
\* raise_for_status, which raises on 4xx and 5xx only; otherwise the chunk
\* counts as sent.  When the loop ends without 200 or 201, RuntimeError.
upload_large_file_chunk(s, body) ==
    /\ prog = "importer" /\ upc = "chunk" /\ sent < size
    /\ body \in JsonBodies(s)
    /\ LET to_send == ToSend(size, sent)
       IN  \/ /\ BackoffRetry(s)
              /\ UNCHANGED uploadVars
           \/ /\ BackoffLeave(s)
              /\ sentReqs' = Append(sentReqs,
                                Req("chunk", sent, sent + to_send - 1, size, s))
              /\ IF s \in {200, 201}
                 THEN IF body THEN FileUploaded(RemoteUrl(manifest[row].source_path)) ELSE UploadRaises
                 ELSE IF s # 202 /\ raise_for_status(s)
                      THEN UploadRaises
                      ELSE /\ sent' = sent + to_send
                           /\ upc' = IF sent + to_send < size THEN "chunk"
                                                             ELSE "aborted"
                           /\ UNCHANGED <<row, web_urls_by_path>>
              /\ UNCHANGED <<nrows, size, manifest, posted>>
    /\ UNCHANGED <<prog, mainVars, takeoutVars>>

\* single_script.py upload_file, lines 185-188: one PUT .../content,
\* raise_for_status, r.json()["webUrl"].
upload_file_put(s, body) ==
    /\ prog = "single" /\ upc = "put"
    /\ body \in JsonBodies(s)
    /\ sentReqs' = Append(sentReqs, Req("content", 0, size - 1, size, s))
    /\ IF raise_for_status(s) \/ ~body THEN UploadRaises ELSE FileUploaded(RemoteUrl(manifest[row].source_path))
    /\ UNCHANGED <<prog, mainVars, backoffVars, takeoutVars, nrows, size, manifest,
                   posted>>

\* single_script.py upload_file, lines 191-195.
upload_file_session(s, body) ==
    /\ prog = "single" /\ upc = "session"
    /\ body \in JsonBodies(s)
    /\ sentReqs' = Append(sentReqs, Req("session", 0, 0, size, s))
    /\ IF ~body THEN UploadRaises
                ELSE upc' = "chunk" /\ UNCHANGED <<row, web_urls_by_path, sent>>
    /\ UNCHANGED <<prog, mainVars, backoffVars, takeoutVars, nrows, size, manifest,
                   posted>>

\* single_script.py upload_file, lines 196-204: one chunk is put; 200 or 201
\* returns the webUrl; any status but 202 goes through raise_for_status; when
\* the loop ends without 200 or 201 the function returns None.
upload_file_chunk(s, body) ==
    /\ prog = "single" /\ upc = "chunk" /\ sent < size
    /\ body \in JsonBodies(s)
    /\ LET len_chunk == SToSend(size, sent)
           end == sent + len_chunk - 1
       IN  /\ sentReqs' = Append(sentReqs, Req("chunk", sent, end, size, s))
           /\ IF s \in {200, 201}
              THEN IF body THEN FileUploaded(RemoteUrl(manifest[row].source_path)) ELSE UploadRaises
              ELSE IF s # 202 /\ raise_for_status(s)
                   THEN UploadRaises
                   ELSE /\ sent' = end + 1
                        /\ IF end + 1 < size
                           THEN UNCHANGED <<upc, row, web_urls_by_path>>
                           ELSE /\ web_urls_by_path' =
                                      [web_urls_by_path EXCEPT
                                         ![manifest[row].source_path] = NoneUrl]
                                /\ row' = row + 1
                                /\ upc' = "row"
    /\ UNCHANGED <<prog, mainVars, backoffVars, takeoutVars, nrows, size, manifest,
                   posted>>

\* The links the importer appends to a message: those of every value of
\* web_urls_by_path, whatever the message (lines 152-154).
LinksOfAll == {web_urls_by_path[p] : p \in {q \in Paths : web_urls_by_path[q] # Absent}}

\* A message is posted with the links added to its body.
Posted(links) ==
    /\ posted' = Append(posted, [index |-> count, links |-> links])
    /\ count' = count + 1

\* teams_importer.py main, lines 145-157, with post_import_message: the next
\* line of the queue is posted through backoff_try, with the links of all the
\* uploaded files appended to its body; line 95 raises unless 200 or 201, and
\* r.json() is read.
importer_replay_post(s, body) ==
    /\ prog = "importer" /\ upc = "uploaded" /\ count < Len(all_payloads)
    /\ body \in JsonBodies(s)
    /\ \/ /\ BackoffRetry(s)
          /\ UNCHANGED <<upc, posted, count>>
       \/ /\ BackoffLeave(s)
          /\ IF (s \notin {200, 201} /\ raise_for_status(s)) \/ ~body
             THEN upc' = "aborted" /\ UNCHANGED <<posted, count>>
             ELSE Posted(LinksOfAll) /\ UNCHANGED upc
    /\ UNCHANGED <<prog, START_DATE, END_DATE, SLICE_DAYS, archive, earlier, pc, allOk,
                   modeVars, exportVars, zi, all_payloads, files_to_upload, postCalls,
                   postLog, takeoutVars, nrows, row, size, sent, sentReqs,
                   web_urls_by_path, manifest>>

\* single_script.py main, lines 285-290, with post_import_message: the next
\* payload is posted as it is; path_to_url is not read.
single_replay_post(s, body) ==
    /\ prog = "single" /\ upc = "uploaded" /\ count < Len(all_payloads)
    /\ body \in JsonBodies(s)
    /\ IF (s \notin {200, 201} /\ raise_for_status(s)) \/ ~body
       THEN upc' = "aborted" /\ UNCHANGED <<posted, count>>
       ELSE Posted({}) /\ UNCHANGED upc
    /\ UNCHANGED <<prog, START_DATE, END_DATE, SLICE_DAYS, archive, earlier, pc, allOk,
                   backoffVars, modeVars, exportVars, zi, all_payloads, files_to_upload,
                   postCalls, postLog, takeoutVars, nrows, row, size, sent, sentReqs,
                   web_urls_by_path, manifest>>

\* The queue is exhausted (importer line 161, single line 292).
replay_done ==
    /\ upc = "uploaded" /\ count = Len(all_payloads)
    /\ upc' = "replayed"
    /\ UNCHANGED <<prog, mainVars, backoffVars, takeoutVars, nrows, row, size, sent,
                   sentReqs, web_urls_by_path, manifest, posted>>

UploadInit ==
    /\ prog \in {"importer", "single"}
    /\ START_DATE = ExampleConfig[1] /\ END_DATE = ExampleConfig[2]
    /\ SLICE_DAYS = ExampleConfig[3]
    /\ archive = <<>> /\ earlier = {} /\ postLog = <<>>
    /\ pc = "upload" /\ allOk = TRUE
    /\ attempt = 0 /\ delay = InitialDelay /\ sleeps = <<>>
    /\ only429 = TRUE /\ lastStatus = 0 /\ ret = None
    /\ mode = "MIGRATING" /\ startCalls = 1 /\ completeCalls = 0
    /\ postsAtComplete = 0
    /\ t = 0 /\ slices = <<>> /\ export_ids = <<>> /\ jobs = <<>> /\ cur = 1
    /\ downloads = <<>> /\ downloaded = {}
    /\ zi = 1 /\ files_to_upload = <<>>
    /\ count = 0 /\ postCalls = 0
    /\ nrows \in 0..MaxFiles
    /\ all_payloads = [k \in 1..(nrows + 1) |-> [createdDateTime |-> k]]
    /\ upc = "row" /\ row = 1 /\ size = 0 /\ sent = 0
    /\ sentReqs = <<>> /\ web_urls_by_path = [p \in Paths |-> Absent]
    /\ manifest = <<>> /\ posted = <<>>
    /\ NoTakeout

UploadNext ==
    \/ \E sz \in FileSizes, src \in Paths : upload_row(sz, src)
    \/ upload_rows_done
    \/ \E s \in UploadStatuses, body \in BOOLEAN : upload_small_file(s, body)
    \/ \E s \in UploadStatuses, body \in BOOLEAN : upload_large_file_session(s, body)
    \/ \E s \in UploadStatuses, body \in BOOLEAN : upload_large_file_chunk(s, body)
    \/ \E s \in UploadStatuses, body \in BOOLEAN : upload_file_put(s, body)
    \/ \E s \in UploadStatuses, body \in BOOLEAN : upload_file_session(s, body)
    \/ \E s \in UploadStatuses, body \in BOOLEAN : upload_file_chunk(s, body)
    \/ \E s \in UploadStatuses, body \in BOOLEAN : importer_replay_post(s, body)
    \/ \E s \in UploadStatuses, body \in BOOLEAN : single_replay_post(s, body)
    \/ replay_done

UploadSpec == UploadInit /\ [][UploadNext]_vars

(***************************************************************************)
(* gchat_takeout_to_teams.py: main() and transform_conversation().         *)
(*                                                                         *)
(* TakeoutSpec: the transformer is run, once or several times, on the same *)
(* takeout folder, identity table and staging folder.                      *)
(***************************************************************************)
MaxConvs == 2           \* conversations under takeout_root
MaxTakeoutMsgs == 3     \* messages of one conversation
MaxRuns == 2            \* runs of the transformer

\* A createTime of Takeout: an ISO string with seconds of the day, microseconds
\* and a UTC offset in minutes, the empty string (or no key), or a string that
\* datetime.fromisoformat rejects.
Iso(sec, usec, off) == [kind |-> "iso", sec |-> sec, usec |-> usec, off |-> off]
NoTime == [kind |-> "empty", sec |-> 0, usec |-> 0, off |-> 0]
BadTime == [kind |-> "bad", sec |-> 0, usec |-> 0, off |-> 0]

\* createdDateTime of a payload: null, or a UTC instant in milliseconds.
Null == [null |-> TRUE, ms |-> 0]
Instant(ms) == [null |-> FALSE, ms |-> ms]

\* iso_ensure_z, lines 13-14: the instant in UTC (astimezone), printed with
\* timespec="milliseconds", which drops the microseconds below the millisecond.
iso_ensure_z(dt_str) ==
    Instant((dt_str.sec - dt_str.off * 60) * 1000 + (dt_str.usec \div 1000))

\* line 73: (att.get("contentType") or "").lower().
lower(ct) ==
    CASE ct = "Image/JPEG" -> "image/jpeg"
      [] OTHER -> ct

\* line 84: content_type.startswith("image/").
startswith_image(ct) == ct \in {"image/png", "image/jpeg"}

\* html.escape, line 65, on the texts of the model.
escape(text) == IF text = "a<b" THEN "a&lt;b" ELSE text

\* An attachment reference: its content type, the name it is looked up by in
\* the conversation folder (lines 77-82), whether that file exists, its size.
Att(ct, name, exists, sz) ==
    [contentType |-> ct, name |-> name, exists |-> exists, size |-> sz]

img_small == Att("image/png", "p1.png", TRUE, 4 * MiB - 1)
img_text  == Att("Image/JPEG", "p2.jpg", TRUE, 1)
img_limit == Att("image/png", "p3.png", TRUE, 4 * MiB)
img_gone  == Att("image/png", "p4.png", FALSE, 0)
doc       == Att("application/pdf", "d1.pdf", TRUE, 1)
doc_big   == Att("application/pdf", "d2.pdf", TRUE, 4 * MiB + 1)
doc_gone  == Att("application/pdf", "d3.pdf", FALSE, 0)

Msg(created, text, email, atts) ==
    [created |-> created, text |-> text, email |-> email, atts |-> atts]

\* The messages the conversations are made of.
m_plain   == Msg(Iso(36000, 0, 0), "hi", "ann@x", <<>>)
m_both    == Msg(Iso(36060, 0, 0), "a<b", "bob@x", <<img_small, doc>>)
m_mixed   == Msg(Iso(50000, 123456, 330), "",  "ann@x",
                 <<doc_big, img_small, img_limit, img_text>>)
m_gone    == Msg(Iso(100, 999999, -60), "hi", "ann@x", <<doc_gone, img_gone>>)
m_notime  == Msg(NoTime, "hi", "bob@x", <<img_text>>)
m_badtime == Msg(BadTime, "hi", "ann@x", <<doc>>)

SampleConvs ==
    { <<m_both, m_mixed, m_plain, m_gone>>,
      <<m_plain, m_badtime, m_both, m_mixed>>,
      <<m_mixed, m_gone, m_notime, m_both>>,
      <<m_notime, m_both, m_badtime, m_plain>> }

\* messages.json of a conversation.
ConvContents ==
    {SubSeq(c, 1, k) : c \in SampleConvs, k \in 0..Min(MaxTakeoutMsgs, 4)}

\* The conversation folders, in the order sorted() gives their paths; a folder
\* name is a sequence of words and spaces.
ConvPaths ==
    << [parent |-> "DMs",    name |-> <<"Team", " ", "A">>],
       [parent |-> "Groups", name |-> <<"Ops">>],
       [parent |-> "Groups", name |-> <<"Team", "_", "A">>] >>

\* main, line 140: pathlib.Path(conv).name.replace(" ", "_").
chan_key(path) ==
    [k \in DOMAIN path.name |-> IF path.name[k] = " " THEN "_" ELSE path.name[k]]

ChanKeys == {chan_key(ConvPaths[k]) : k \in DOMAIN ConvPaths}

\* find_takeout_convs: the folders that hold a messages.json, sorted.
TakeoutInputs ==
    LET picks == {q \in SeqsUpTo(DOMAIN ConvPaths, MaxConvs) :
                    \A k \in 1..(Len(q) - 1) : q[k] < q[k + 1]}
    IN  UNION {{[k \in 1..Len(q) |-> [path |-> ConvPaths[q[k]], msgs |-> f[k]]] :
                  f \in [1..Len(q) -> ConvContents]} : q \in picks}

\* load_user_map: users_map.csv, google_email -> aad_object_id.
user_map == [e \in {"ann@x"} |-> "aad-ann"]

\* A file of out_dir.
NoFile == [exists |-> FALSE, lines |-> <<>>]

\* Variant of OpenW: the file is opened for appending.
OpenW_append(old) == [exists |-> TRUE, lines |-> old.lines]

\* open(path, "w"): the file is created, or truncated.
OpenW(old) == [exists |-> TRUE, lines |-> <<>>]

\* Variant of InlineSizeOk: the ceiling is inclusive.
InlineSizeOk_inclusive(sz) == sz <= 4 * MiB

\* line 84: os.path.getsize(file_path) < 4*1024*1024.
InlineSizeOk(sz) == sz < 4 * MiB

\* line 84, with inline_images = True (main, line 142).
Inlined(att) ==
    /\ startswith_image(lower(att.contentType))
    /\ att.exists
    /\ InlineSizeOk(att.size)

\* Variant of NextTempId: the identifier is not advanced.
NextTempId_same(temp_id) == temp_id

\* line 97: temp_id += 1.
NextTempId(temp_id) == temp_id + 1

\* lines 72-101: the loop over the attachments of message i; acc holds hosted,
\* the parts appended to body_html, the manifest rows written, and temp_id.
RECURSIVE attachments_loop(_, _, _)
attachments_loop(atts, i, acc) ==
    IF atts = <<>> THEN acc
    ELSE LET att == Head(atts)
             next ==
               IF Inlined(att)
               THEN [acc EXCEPT
                       !.hosted = Append(@, [temporaryId |-> acc.temp_id,
                                             contentBytes |-> <<"b64", att.name>>,
                                             contentType |-> lower(att.contentType)]),
                       !.refs = Append(@, acc.temp_id),
                       !.temp_id = NextTempId(@)]
               ELSE IF att.exists
                    THEN [acc EXCEPT
                            !.rows = Append(@, [source_path |-> att.name,
                                                suggested_name |-> att.name,
                                                message_index |-> i])]
                    ELSE acc
         IN  attachments_loop(Tail(atts), i, next)

\* lines 67-101 for message m with index i.
Attachments(m, i) ==
    attachments_loop(m.atts, i,
                     [hosted |-> <<>>, refs |-> <<>>, rows |-> <<>>, temp_id |-> 1])

\* line 105: iso_ensure_z raises ValueError on a string that is no ISO time.
PayloadRaises(m) == m.created.kind = "bad"

\* lines 104-116: the payload of message m with index i.
Payload(m, i) ==
    LET a == Attachments(m, i)
        known == m.email \in DOMAIN user_map
    IN  [createdDateTime |-> IF m.created.kind = "empty" THEN Null
                             ELSE iso_ensure_z(m.created),
         from |-> [id |-> IF known THEN user_map[m.email] ELSE "",
                   userIdentityType |-> IF known THEN "aadUser"
                                                 ELSE "unknownFutureValue"],
         body |-> [text |-> escape(m.text), refs |-> a.refs],
         hostedContents |-> a.hosted]

\* The output files, as a run that has ended left them.
Output == <<queues, manifests>>

\* The run ends (main returns, or an exception leaves it).
RunEnds ==
    /\ runs' = runs + 1
    /\ firstOut' = IF runs = 0 THEN <<queues', manifests'>> ELSE firstOut

\* main, lines 138-142, and transform_conversation, lines 45-56: the next
\* conversation is read and its two output files are opened with "w".
transform_conversation_open ==
    /\ tpc = "main" /\ ci <= Len(convs)
    /\ LET key == chan_key(convs[ci].path)
       IN  /\ queues' = [queues EXCEPT ![key] = OpenW(@)]
           /\ manifests' = [manifests EXCEPT ![key] = OpenW(@)]
    /\ mi' = 0
    /\ tpc' = "conv"
    /\ UNCHANGED <<envVars, mainVars, backoffVars, uploadVars, convs, ci, runs,
                   firstOut>>

\* lines 57-118: one message: the manifest rows of its deferred attachments
\* are written, then the payload is built and written to the queue; a
\* createTime that is no ISO time raises, and the exception leaves
\* transform_conversation and main.
transform_message ==
    /\ tpc = "conv" /\ mi < Len(convs[ci].msgs)
    /\ LET key == chan_key(convs[ci].path)
           m == convs[ci].msgs[mi + 1]
       IN  /\ manifests' = [manifests EXCEPT
                              ![key].lines = @ \o Attachments(m, mi).rows]
           /\ IF PayloadRaises(m)
              THEN /\ tpc' = "failed"
                   /\ UNCHANGED <<queues, mi>>
                   /\ RunEnds
              ELSE /\ queues' = [queues EXCEPT
                                   ![key].lines = Append(@, Payload(m, mi))]
                   /\ mi' = mi + 1
                   /\ UNCHANGED <<tpc, runs, firstOut>>
    /\ UNCHANGED <<envVars, mainVars, backoffVars, uploadVars, convs, ci>>

\* lines 120-122: the conversation is done; main goes to the next one.
transform_conversation_close ==
    /\ tpc = "conv" /\ mi = Len(convs[ci].msgs)
    /\ ci' = ci + 1
    /\ tpc' = "main"
    /\ UNCHANGED <<envVars, mainVars, backoffVars, uploadVars, convs, mi, queues,
                   manifests, runs, firstOut>>

\* main, line 138: no conversation is left.
takeout_main_done ==
    /\ tpc = "main" /\ ci > Len(convs)
    /\ tpc' = "done"
    /\ UNCHANGED <<envVars, mainVars, backoffVars, uploadVars, convs, ci, mi,
                   queues, manifests>>
    /\ RunEnds

\* The operator runs the transformer again on the same folders.
takeout_rerun ==
    /\ tpc \in {"done", "failed"} /\ runs < MaxRuns
    /\ tpc' = "main" /\ ci' = 1 /\ mi' = 0
    /\ UNCHANGED <<envVars, mainVars, backoffVars, uploadVars, convs, queues,
                   manifests, runs, firstOut>>

TakeoutInit ==
    /\ prog = "takeout"
    /\ START_DATE = ExampleConfig[1] /\ END_DATE = ExampleConfig[2]
    /\ SLICE_DAYS = ExampleConfig[3]
    /\ archive = <<>> /\ earlier = {} /\ postLog = <<>>
    /\ pc = "none" /\ allOk = TRUE
    /\ attempt = 0 /\ delay = InitialDelay /\ sleeps = <<>>
    /\ only429 = TRUE /\ lastStatus = 0 /\ ret = None
    /\ mode = "NOT_STARTED" /\ startCalls = 0 /\ completeCalls = 0
    /\ postsAtComplete = 0
    /\ t = 0 /\ slices = <<>> /\ export_ids = <<>> /\ jobs = <<>> /\ cur = 1
    /\ downloads = <<>> /\ downloaded = {}
    /\ zi = 1 /\ all_payloads = <<>> /\ files_to_upload = <<>>
    /\ count = 0 /\ postCalls = 0
    /\ NoUpload
    /\ convs \in TakeoutInputs
    /\ tpc = "main" /\ ci = 1 /\ mi = 0
    /\ queues = [k \in ChanKeys |-> NoFile]
    /\ manifests = [k \in ChanKeys |-> NoFile]
    /\ runs = 0 /\ firstOut = <<>>

TakeoutNext ==
    \/ transform_conversation_open
    \/ transform_message
    \/ transform_conversation_close
    \/ takeout_main_done
    \/ takeout_rerun

TakeoutSpec == TakeoutInit /\ [][TakeoutNext]_vars

(***************************************************************************)
(* Properties.                                                             *)
(***************************************************************************)

\* C1: resume after interruption: a run that follows an interrupted run posts
\* only the messages the earlier runs have not posted, so that over all runs
\* no message of the queue is posted more than once.
C1_NoRepost == \A k \in DOMAIN postLog : postLog[k] \notin earlier

\* C2: scoped release of migration mode: no run ends with an error while
\* migration mode is started and completeMigration has not been called.
C2_ScopedRelease ==
    pc = "failed" => ~(mode = "MIGRATING" /\ completeCalls = 0)

\* C3: every message post happens in state MIGRATING: start migration has been
\* called exactly once in this run and was acknowledged, and completeMigration
\* has not been called.
C3_PostOnlyWhileMigrating ==
    [][postCalls' > postCalls =>
         (mode = "MIGRATING" /\ startCalls = 1 /\ completeCalls = 0)]_vars

C3_Witness == count >= 1 /\ mode = "MIGRATING" /\ startCalls = 1

\* C4: a run in which every external call succeeds calls completeMigration
\* exactly once, after every message of the queue has been posted.
C4_CompleteOnce ==
    (pc \in {"done", "failed"} /\ allOk) =>
        (completeCalls = 1 /\ postsAtComplete = Len(all_payloads))

\* C5: replay preserves the input order and is serialized: the posts of a run
\* are the payloads 1, 2, ..., count in list order whatever their timestamps,
\* a post is issued only when every earlier post has returned successfully,
\* and a run that completes has posted the whole list.
C5_ReplayInOrder ==
    /\ Len(postLog) = count
    /\ \A k \in DOMAIN postLog : postLog[k] = k
    /\ pc = "post" => postCalls = count
    /\ pc \in {"complete", "done"} => count = Len(all_payloads)

C5_Witness ==
    /\ pc = "done"
    /\ [i \in DOMAIN all_payloads |-> all_payloads[i].createdDateTime]
          = <<10, 9, 11>>
    /\ postLog = <<1, 2, 3>>

\* C6: partitioning: for start < end and a slice width of at least one day the
\* slices are in ascending order, begin at start, end at end, are contiguous,
\* non-empty and no wider than the slice width; [2024-01-01, 2024-03-01) with
\* width 30 gives [01-01, 01-31), [01-31, 03-01).
PartitionOver ==
    /\ prog = "single"
    /\ pc \in {"create", "poll", "sleep", "download", "usermap", "transform",
               "start", "folder", "upload", "post", "complete", "done"}

C6_Partition ==
    (/\ PartitionOver
     /\ fromisoformat(START_DATE) < fromisoformat(END_DATE)
     /\ SLICE_DAYS >= 1) =>
        LET n == Len(slices)
            width(sl) == fromisoformat(sl[2]) - fromisoformat(sl[1])
        IN  /\ n >= 1
            /\ slices[1][1] = START_DATE
            /\ slices[n][2] = END_DATE
            /\ \A i \in 1..(n - 1) : slices[i][2] = slices[i + 1][1]
            /\ \A i \in 1..n : width(slices[i]) >= 1 /\ width(slices[i]) <= SLICE_DAYS
            /\ <<START_DATE, END_DATE, SLICE_DAYS>> = ExampleConfig =>
                  slices = << <<<<2024, 1, 1>>, <<2024, 1, 31>>>>,
                              <<<<2024, 1, 31>>, <<2024, 3, 1>>>> >>

C6_Witness ==
    /\ PartitionOver
    /\ <<START_DATE, END_DATE, SLICE_DAYS>> = ExampleConfig
    /\ Len(slices) = 2

\* C7: throttling is transparent and backoff is monotone: a backoff_try call
\* that is answered k times 429 (1 <= k <= 7) and then with success hands the
\* success to its caller, which raises nothing; the delays slept are
\* non-decreasing and never above 60.
NonDecreasing(q) == \A i \in 1..(Len(q) - 1) : q[i] <= q[i + 1]

SuccessOf(fn) == IF fn = "start_channel_migration" THEN {204, 202} ELSE {200}

C7_ThrottlingTransparent ==
    /\ NonDecreasing(sleeps)
    /\ \A i \in DOMAIN sleeps : sleeps[i] <= 60
    /\ (/\ ret # None
        /\ ret.only429
        /\ ret.calls - 1 \in 1..7
        /\ ret.status \in SuccessOf(ret.fn)) =>
           /\ ~ret.raised
           /\ Len(ret.sleeps) = ret.calls - 1
           /\ NonDecreasing(ret.sleeps)
           /\ \A i \in DOMAIN ret.sleeps : ret.sleeps[i] <= 60

C7_Witness ==
    /\ ret # None
    /\ ret.only429
    /\ ret.calls = 8
    /\ ret.status \in SuccessOf(ret.fn)
    /\ ~ret.raised
    /\ ret.sleeps = <<1, 2, 4, 8, 16, 32, 60>>

\* C8 as stated: an answer 429 or any 5xx is retried, up to 8 calls in all,
\* and then escalated as an error; a 4xx answer other than 429 is never
\* retried and is an error at once.
C8_RetryAny5xx ==
    LET transient(s) == s = 429 \/ (s >= 500 /\ s < 600)
    IN  /\ attempt > 0 => (transient(lastStatus) /\ attempt < 8)
        /\ ret # None =>
              /\ transient(ret.status) => (ret.calls = 8 /\ ret.raised)
              /\ (ret.status >= 400 /\ ret.status < 500 /\ ret.status # 429)
                    => ret.raised

\* C8 as amended: an answer 429, 500, 502, 503 or 504 is retried, up to 8 calls
\* in all, and then escalated as an error; any other 4xx or 5xx answer (501
\* among them) is never retried and is an error at once.
C8_RetryDecision ==
    LET transient(s) == s \in {429, 500, 502, 503, 504}
    IN  /\ attempt > 0 => (transient(lastStatus) /\ attempt < 8)
        /\ ret # None =>
              /\ transient(ret.status) => (ret.calls = 8 /\ ret.raised)
              /\ (ret.status >= 400 /\ ~transient(ret.status)) => ret.raised
              /\ ret.calls < 8 => ~transient(ret.status)

C8_Witness ==
    /\ ret # None
    /\ ret.status = 503
    /\ ret.calls = 8
    /\ ret.raised

\* C9: export polling is bounded: the polling of an export always ends, with
\* COMPLETED or with a timeout, also when the job stays in progress or fails.
Polling(i) == pc \in {"poll", "sleep"} /\ cur = i /\ i <= Len(export_ids)

C9_PollingEnds == \A i \in 1..MaxSlices : Polling(i) ~> ~Polling(i)

\* C10: slice isolation: a slice whose job has completed gets its files
\* downloaded (unless the run is killed or fails), whatever becomes of the
\* jobs of the other slices.
Completed(j) ==
    /\ pc \in {"poll", "sleep", "download"}
    /\ j <= Len(jobs)
    /\ jobs[j] = "COMPLETED"

C10_SliceIsolation ==
    \A j \in 1..MaxSlices :
        Completed(j) ~> (j \in downloaded \/ pc \in {"failed", "interrupted"})

\* The chunk requests of the file being uploaded, in the order they were made.
ChunkReqs == SelectSeq(sentReqs, LAMBDA r : r.kind = "chunk")

\* The upload of the file of the current row is over.
UploadOver == upc \in {"row", "uploaded", "aborted"}

\* C11: chunk responses: a chunk whose final status is 202 is followed by the
\* next chunk or ends the loop, a chunk whose final status is 200 or 201 ends
\* the upload with the remote reference, and a chunk with any other final
\* status is fatal for the file: the upload raises, and no further chunk is
\* sent in the session.
C11_ChunkResponses ==
    \A k \in DOMAIN ChunkReqs :
       /\ k < Len(ChunkReqs) => ChunkReqs[k].status = 202
       /\ (k = Len(ChunkReqs) /\ ChunkReqs[k].status \in {200, 201}) =>
             /\ upc \in {"row", "uploaded"}
             /\ web_urls_by_path[manifest[Len(manifest)].source_path]
                   = RemoteUrl(manifest[Len(manifest)].source_path)
       /\ (k = Len(ChunkReqs) /\ ChunkReqs[k].status \notin {200, 201, 202}) =>
             upc = "aborted"

\* Every chunk was accepted: answered 202, or 200 or 201 when it carried the
\* last byte of the file.
AllAccepted ==
    \A k \in DOMAIN ChunkReqs :
       \/ ChunkReqs[k].status = 202
       \/ ChunkReqs[k].status \in {200, 201} /\ ChunkReqs[k].last >= size - 1

\* C12: the chunks of one upload session are sent in order: for a file of size
\* S > 4 MiB whose chunks are all accepted the ranges are contiguous and
\* ascending from byte 0, each chunk is at most 5 MiB, every header declares
\* the total S, and the last range ends at byte S - 1.
C12_ChunksInOrder ==
    (size > 4 * MiB /\ AllAccepted) =>
       /\ ChunkReqs # <<>> => ChunkReqs[1].first = 0
       /\ \A k \in 1..(Len(ChunkReqs) - 1) :
             ChunkReqs[k + 1].first = ChunkReqs[k].last + 1
       /\ \A k \in DOMAIN ChunkReqs :
             /\ ChunkReqs[k].first <= ChunkReqs[k].last
             /\ ChunkReqs[k].last - ChunkReqs[k].first + 1 <= 5 * MiB
             /\ ChunkReqs[k].total = size
       /\ (UploadOver /\ ChunkReqs # <<>>) =>
             ChunkReqs[Len(ChunkReqs)].last = size - 1

\* A file of two full chunks and one byte went up in three accepted chunks.
C12_Witness ==
    /\ size = 2 * ChunkSize + 1
    /\ Len(ChunkReqs) = 3
    /\ AllAccepted
    /\ ChunkReqs[3].first = 2 * ChunkSize /\ ChunkReqs[3].last = size - 1
    /\ ChunkReqs[3].status = 201
    /\ UploadOver

\* C13: upload mode by size: a file of at most 4 MiB is uploaded with one PUT
\* of its content and opens no upload session; a larger file is uploaded
\* through an upload session, in chunks, and never with a PUT of its content.
C13_ModeBySize ==
    sentReqs # <<>> =>
       IF size <= 4 * MiB
       THEN Len(sentReqs) = 1 /\ sentReqs[1].kind = "content"
       ELSE /\ sentReqs[1].kind = "session"
            /\ \A k \in 2..Len(sentReqs) : sentReqs[k].kind = "chunk"

\* A file of exactly 4 MiB went up with one PUT.
C13_Witness ==
    /\ size = 4 * MiB
    /\ Len(sentReqs) = 1 /\ sentReqs[1].kind = "content"
    /\ sentReqs[1].status \in {200, 201}
    /\ upc = "row" /\ row >= 2

\* C14: a failed upload degrades and does not block: the file is skipped and
\* the loop goes on with the remaining rows; no upload failure ends the run.
C14_UploadDegrades ==
    /\ upc # "aborted"
    /\ upc = "uploaded" => row > nrows

\* The conversation being transformed, its channel key, and the payloads and
\* manifest rows written for it so far: payload k is that of message k.
CurMsgs == convs[ci].msgs
CurQueue == queues[chan_key(convs[ci].path)].lines
CurRows == manifests[chan_key(convs[ci].path)].lines
RowsOf(i) == SelectSeq(CurRows, LAMBDA r : r.message_index = i)
Written == IF tpc = "conv" THEN 1..mi ELSE {}

\* An attachment that is to be inlined: its content type declares an image
\* subtype, its file exists, and the file is smaller than 4 MiB.
Eligible(att) ==
    /\ att.contentType \in {"image/png", "Image/JPEG"}
    /\ att.exists
    /\ att.size < 4 * MiB

\* C15: an attachment becomes an inline asset if and only if it is an image
\* whose file exists and is strictly smaller than 4 MiB; an image of exactly
\* 4 MiB is not inlined.
C15_InlineEligibility ==
    \A k \in Written :
       /\ \A a \in DOMAIN CurMsgs[k].atts :
             Eligible(CurMsgs[k].atts[a]) <=>
                \E h \in DOMAIN CurQueue[k].hostedContents :
                   CurQueue[k].hostedContents[h].contentBytes
                      = <<"b64", CurMsgs[k].atts[a].name>>
       /\ \A h \in DOMAIN CurQueue[k].hostedContents :
             \E a \in DOMAIN CurMsgs[k].atts :
                /\ CurQueue[k].hostedContents[h].contentBytes
                      = <<"b64", CurMsgs[k].atts[a].name>>
                /\ CurMsgs[k].atts[a].size < 4 * MiB

\* A message with images of 4 MiB - 1 and of 4 MiB: the first is inlined, the
\* second is in the manifest.
C15_Witness ==
    \E k \in Written :
       /\ CurMsgs[k] = m_mixed
       /\ \E h \in DOMAIN CurQueue[k].hostedContents :
             CurQueue[k].hostedContents[h].contentBytes = <<"b64", "p1.png">>
       /\ \E r \in DOMAIN CurRows :
             CurRows[r].source_path = "p3.png" /\ CurRows[r].message_index = k - 1

\* C16: every attachment of a message yields exactly one output: the inline
\* assets and the manifest entries of a message (those whose message_index is
\* the position of the message) are as many as its attachments, with one
\* reference marker per inline asset.
C16_OneOutputPerAttachment ==
    \A k \in Written :
       /\ Len(CurQueue[k].hostedContents) + Len(RowsOf(k - 1))
             = Len(CurMsgs[k].atts)
       /\ Len(CurQueue[k].body.refs) = Len(CurQueue[k].hostedContents)

\* The names of the attachments of a message that are to be inlined, in the
\* listed order.
EligibleNames(m) ==
    LET el == SelectSeq(m.atts, Eligible)
    IN  [h \in DOMAIN el |-> el[h].name]

\* C17: temporary identifiers are per message: the inline assets of a message
\* carry 1, 2, ..., k in the listed order of the inlined attachments, the
\* deferred attachments take no identifier, and the body holds one reference
\* marker per identifier.
C17_TempIdsPerMessage ==
    \A k \in Written :
       LET hosted == CurQueue[k].hostedContents
       IN  /\ \A h \in DOMAIN hosted : hosted[h].temporaryId = h
           /\ CurQueue[k].body.refs = [h \in DOMAIN hosted |-> h]
           /\ [h \in DOMAIN hosted |-> hosted[h].contentBytes[2]]
                 = EligibleNames(CurMsgs[k])

\* A message with one inline image is followed by a message whose first
\* attachment is deferred and which has two inline images: 1, then 1 and 2.
C17_Witness ==
    /\ tpc = "conv" /\ mi >= 2
    /\ CurMsgs[1] = m_both /\ CurMsgs[2] = m_mixed
    /\ Len(CurQueue[1].hostedContents) = 1
    /\ CurQueue[1].hostedContents[1].temporaryId = 1
    /\ Len(CurQueue[2].hostedContents) = 2
    /\ CurQueue[2].hostedContents[2].temporaryId = 2
    /\ CurQueue[2].body.refs = <<1, 2>>

\* The messages of a conversation that are well formed.
WellFormed(msgs) == SelectSeq(msgs, LAMBDA m : m.created.kind # "bad")

\* Conversation c is the last one written to its queue file.
LastOfKey(c) ==
    \A d \in DOMAIN convs :
       (d > c) => chan_key(convs[d].path) # chan_key(convs[c].path)

\* C18: a malformed record is isolated: when a run has ended, every well-formed
\* message of every conversation is in the queue of its conversation, whatever
\* malformed messages there are.
C18_MalformedIsolated ==
    tpc \in {"done", "failed"} =>
       \A c \in DOMAIN convs :
          LastOfKey(c) =>
             Len(queues[chan_key(convs[c].path)].lines)
                = Len(WellFormed(convs[c].msgs))

\* C19: no payload of a queue is without a creation timestamp.
C19_NoTimestampDefault ==
    \A key \in ChanKeys :
       \A k \in DOMAIN queues[key].lines :
          ~queues[key].lines[k].createdDateTime.null

\* C20: transform is safe to re-run: a second run on the same input leaves the
\* queue files and the manifest files as the first run left them.
C20_RerunIdentical ==
    (tpc \in {"done", "failed"} /\ runs >= 2) => Output = firstOut

\* The second run has ended, on conversations with messages and deferred files.
C20_Witness ==
    /\ tpc = "done" /\ runs = 2
    /\ Output = firstOut
    /\ \E key \in ChanKeys :
          Len(queues[key].lines) >= 2 /\ Len(manifests[key].lines) >= 1

\* C21: one backoff gate per API, with a shared delay: a call that follows a
\* throttled call starts from the delay the throttled call had reached (twice
\* its last sleep, at most 60), not from the initial delay.
C21_SharedGate ==
    (/\ prog = "importer" /\ pc = "folder" /\ attempt = 0
     /\ ret # None
     /\ ret.sleeps # <<>>) =>
        delay >= Min(2 * ret.sleeps[Len(ret.sleeps)], 60)

\* The links of the files of the message with index i: the remote URLs of the
\* manifest rows whose message_index is i.
LinksOwnedBy(i) ==
    {web_urls_by_path[manifest[r].source_path] :
        r \in {q \in DOMAIN manifest : manifest[q].message_index = i}}

\* C22: file links go to the owning message only: every message is posted
\* with the links of its own deferred files and no other; a message without a
\* deferred file is posted with no link.
C22_LinksToOwner ==
    \A k \in DOMAIN posted : posted[k].links = LinksOwnedBy(posted[k].index)

\* C23: the mapping source path -> remote URL is append-only: an entry that is
\* in the mapping is never removed and never given another value.
C23_MappingAppendOnly ==
    [][\A p \in Paths :
          web_urls_by_path[p] # Absent => web_urls_by_path'[p] = web_urls_by_path[p]]_vars

\* C24: an upload returns a remote URL or fails: no entry of the mapping holds
\* an absent value.
C24_UrlOrError == \A p \in Paths : web_urls_by_path[p] # NoneUrl

\* C25: the partition loop terminates for every configured slice width: every
\* iteration of the loop that builds the slices moves the cursor strictly
\* forward, so the distance from the cursor to end shrinks with every slice
\* and the loop ends after finitely many steps.
C25_PartitionTerminates ==
    [][(/\ prog = "single" /\ pc = "partition" /\ pc' = "partition"
        /\ Len(slices') = Len(slices) + 1) => t' > t]_vars

=============================================================================
